---- MODULE Spec2Model ----
(***************************************************************************)
(* Vehicle-position simulation engine of dx-map (src/app/simulation.rs and *)
(* src/app/simulation/{mod,model}.rs): the process-wide SimulationState,   *)
(* the fleet builder, the per-frame tick, the requestAnimationFrame loop   *)
(* and the initialize / toggle / reset control operations.                 *)
(*                                                                         *)
(* Numbers.  f64 progress and speed are fixed-point integers in units of   *)
(* 1/One (One stands for 1.0); station coordinates are integers in units   *)
(* of 1e-4 degree, and a vehicle's lng/lat are kept in units of 1e-4/One   *)
(* degree so that the linear interpolation is exact.                       *)
(*                                                                         *)
(* Host.  The browser runs every handler to completion, so each handler is *)
(* one action.  Frame-request ids are opaque: the engine only stores the   *)
(* latest one and hands it back to cancelAnimationFrame, so the host may   *)
(* reuse any id that is no longer outstanding.                             *)
(***************************************************************************)
EXTENDS Integers, Sequences, FiniteSets, TLC

VARIABLES
    tfl_data,            \* Option<TflDataRepository> captured by the exposed closures
    routes,              \* SimulationState.routes
    vehicles,            \* SimulationState.vehicles
    is_paused,           \* SimulationState.is_paused
    animation_frame_id,  \* SimulationState.animation_frame_id (None or an id)
    outstanding,         \* host: ids of frame requests not yet fired or cancelled
    ticks,               \* ticks applied to the current fleet (model bound only)
    lastOp,              \* history: the handler that ran last
    toggleRun,           \* history: toggles since another handler ran, counted to 2
    preToggle,           \* history: is_paused and vehicles before the last toggle
    preReset,            \* history: outstanding requests issued before the last reset
    preBuild,            \* history: what the last initialize or reset started from
    scheduler,           \* host: "ok", "no_window" (window() is None) or "error"
    map,                 \* renderer: "none", "no_source" or "ready"
    requested,           \* history: outcome of the last handler's frame request
    pushed,              \* history: the snapshot the last handler built, if any
    fired,               \* history: the request whose callback ran last, if one did
    probe                \* input and outcome of a fleet build made on its own

vars == <<tfl_data, routes, vehicles, is_paused, animation_frame_id,
          outstanding, ticks, lastOp, toggleRun, preToggle, preReset, preBuild,
          scheduler, map, requested, pushed, fired, probe>>

----------------------------------------------------------------------------
(* Bounds of the model *)

\* at most this many ticks are applied to one fleet
MaxTicks == 37
\* at most this many frame requests are outstanding at once
MaxOutstanding == 2
\* at most this many ticks are applied to one fleet in a host that may fail
MaxHostTicks == 2
\* a fleet build made on its own is given at most this many routes
MaxProbeRoutes == 2
\* each of them with at most this many stations
MaxProbeStations == 3
\* a tick made on its own is given a route of at most this many stations
MaxTickStations == 4
\* and a fleet of this many vehicles
MaxTickFleet == 3
\* the earlier controller is followed for this many frame requests
MaxEarlierIds == 4
\* a vehicle of the earlier controller is updated this many times
MaxVehicleUpdates == 2
\* the instrumented functions are followed for this many calls
MaxLogCalls == 601

(* Program constants *)

\* 1.0 in fixed point
One == 1000
\* VehicleType::Train => 10
TrainCount == 10
\* VehicleType::Bus => 20
BusCount == 20
\* 0.005 in fixed point
SpeedBase == 5
\* 0.01 in fixed point
SpeedSpan == 10
\* Option values: None is the empty set, Some(x) is {x}
None == {}
Some(x) == {x}

\* Math.random() is drawn as the successive elements of a cyclic stream of
\* values in [0, One), in units of 1/One.
RandomStreams == { <<999>>, <<500, 999, 0>> }

Draw(stream, j) == stream[(j % Len(stream)) + 1]

----------------------------------------------------------------------------
(* Routes *)

Route(id, vehicle_type, stations) ==
    [id |-> id, vehicle_type |-> vehicle_type, stations |-> stations]

build_sample_routes ==
    << Route(0, "Train",
         << <<-2810, 515170>>, <<-2528, 515113>>, <<-2194, 515136>>,
            <<-1987, 515202>>, <<-1652, 515259>>, <<-1350, 515210>>,
            <<-997, 515152>>,  <<-638, 515165>>,  <<-362, 515111>>,
            <<-244, 515043>>,  <<-48, 515035>>,   <<-125, 515009>>,
            <<-199, 514996>>,  <<-457, 515068>>,  <<-742, 515113>>,
            <<-983, 515142>>,  <<-1280, 515151>>, <<-1410, 515154>>,
            <<-1687, 515174>>, <<-1889, 515206>>, <<-1205, 515152>>,
            <<-1025, 515168>>, <<-911, 515155>>,  <<-765, 515108>> >>),
       Route(1, "Train",
         << <<-1938, 516503>>, <<-1932, 516302>>, <<-1858, 516179>>,
            <<-1750, 516071>>, <<-1647, 515998>>, <<-1534, 515874>>,
            <<-1419, 515775>>, <<-1303, 515717>>, <<-1123, 515656>>,
            <<-1051, 515545>>, <<-1426, 515302>>, <<-1385, 515248>>,
            <<-1343, 515287>>, <<-1304, 515295>>, <<-1231, 515203>>,
            <<-1065, 515121>>, <<-882, 515176>>,  <<-911, 515155>>,
            <<-924, 515113>>,  <<-1002, 515044>>, <<-1052, 514944>> >>),
       Route(2, "Bus",
         << <<-1465, 515365>>, <<-1325, 515300>>, <<-1155, 515235>>,
            <<-958, 515181>>,  <<-879, 515155>>,  <<-825, 515127>>,
            <<-754, 515101>>,  <<-650, 515088>>,  <<-550, 515070>>,
            <<-449, 515055>>,  <<-349, 515040>>,  <<-250, 515025>>,
            <<-150, 515010>>,  <<-50, 514995>>,   <<50, 514980>>,
            <<150, 514965>>,   <<250, 514950>>,   <<350, 514935>>,
            <<450, 514920>>,   <<550, 514905>> >>) >>

\* A line of the transit-data repository: a vehicle class and its waypoints.
Line(vehicle_type, stations) == [vehicle_type |-> vehicle_type, stations |-> stations]

\* Repositories the application may have loaded.
TflRepositories ==
    { << Line("Train", << <<0, 0>>, <<10, 0>> >>) >>,
      << Line("Bus",   << <<0, 0>>, <<10, 0>>, <<10, 20>> >>),
         Line("Train", << <<-5, 7>>, <<5, 7>> >>) >> }

RECURSIVE AppendRoutes(_, _, _)
AppendRoutes(repo, k, acc) ==
    IF k > Len(repo) THEN acc
    ELSE IF Len(repo[k].stations) < 2 THEN AppendRoutes(repo, k + 1, acc)
    ELSE AppendRoutes(repo, k + 1,
             Append(acc, Route(Len(acc), repo[k].vehicle_type, repo[k].stations)))

\* One route per line, in order, skipping lines with fewer than 2 waypoints.
build_routes_from_tfl_data(repo) == AppendRoutes(repo, 1, << >>)

\* initialize_simulation: routes from the repository if there is one
BuildRoutes(data) ==
    IF data = None THEN build_sample_routes
    ELSE build_routes_from_tfl_data(CHOOSE repo \in data : TRUE)

----------------------------------------------------------------------------
(* Fleet builder *)

\* `x as usize` and usize arithmetic on wasm32 (release build: wrapping).  A
\* usize is kept as the signed reading of its 32 bits, so a negative number k
\* stands for the index 2^32 + k; the casts between i32 and usize keep the bits.
AsUsize(x) == x

\* f64 coordinate of a station in the units of Vehicle.lng / Vehicle.lat
ToFixed(c) == c * One

VehicleCount(vehicle_type) == IF vehicle_type = "Train" THEN TrainCount ELSE BusCount

\* station k (0-based, as in the code) of a route
Station(route, k) == route.stations[k + 1]

\* Mutant: every vehicle starts forward from station 0.
NewVehicle_AllForward(route, i, id, stream) ==
    [ id           |-> id,
      vehicle_type |-> route.vehicle_type,
      route_index  |-> route.id,
      position     |-> Draw(stream, 2 * id),
      speed        |-> SpeedBase + (Draw(stream, 2 * id + 1) * SpeedSpan) \div One,
      direction    |-> 1,
      last_station |-> 0,
      next_station |-> 1,
      lng          |-> ToFixed(Station(route, 0)[1]),
      lat          |-> ToFixed(Station(route, 0)[2]) ]

\* Mutant: every vehicle is made a bus, whatever its route carries.
NewVehicle_AllBuses(route, i, id, stream) ==
    LET len  == Len(route.stations)
        last == IF i % 2 = 0 THEN 0 ELSE AsUsize(len - 1)
        next == IF i % 2 = 0 THEN 1 ELSE AsUsize(len - 2)
        dir  == IF i % 2 = 0 THEN 1 ELSE -1
    IN  [ id           |-> id,
          vehicle_type |-> "Bus",
          route_index  |-> route.id,
          position     |-> Draw(stream, 2 * id),
          speed        |-> SpeedBase + (Draw(stream, 2 * id + 1) * SpeedSpan) \div One,
          direction    |-> dir,
          last_station |-> last,
          next_station |-> next,
          lng          |-> ToFixed(Station(route, last)[1]),
          lat          |-> ToFixed(Station(route, last)[2]) ]

\* Mutant: ids are counted from 0 on every route.
NewVehicle_RouteLocalId(route, i, id, stream) ==
    LET len  == Len(route.stations)
        last == IF i % 2 = 0 THEN 0 ELSE AsUsize(len - 1)
        next == IF i % 2 = 0 THEN 1 ELSE AsUsize(len - 2)
        dir  == IF i % 2 = 0 THEN 1 ELSE -1
    IN  [ id           |-> i,
          vehicle_type |-> route.vehicle_type,
          route_index  |-> route.id,
          position     |-> Draw(stream, 2 * id),
          speed        |-> SpeedBase + (Draw(stream, 2 * id + 1) * SpeedSpan) \div One,
          direction    |-> dir,
          last_station |-> last,
          next_station |-> next,
          lng          |-> ToFixed(Station(route, last)[1]),
          lat          |-> ToFixed(Station(route, last)[2]) ]

\* the vehicle pushed by iteration i of the inner loop, id_counter being id
NewVehicle(route, i, id, stream) ==
    LET len  == Len(route.stations)
        last == IF i % 2 = 0 THEN 0 ELSE AsUsize(len - 1)
        next == IF i % 2 = 0 THEN 1 ELSE AsUsize(len - 2)
        dir  == IF i % 2 = 0 THEN 1 ELSE -1
    IN  [ id           |-> id,
          vehicle_type |-> route.vehicle_type,
          route_index  |-> route.id,
          position     |-> Draw(stream, 2 * id),
          speed        |-> SpeedBase + (Draw(stream, 2 * id + 1) * SpeedSpan) \div One,
          direction    |-> dir,
          last_station |-> last,
          next_station |-> next,
          lng          |-> ToFixed(Station(route, last)[1]),
          lat          |-> ToFixed(Station(route, last)[2]) ]

RECURSIVE PushVehicles(_, _, _, _)
PushVehicles(route, i, acc, stream) ==
    IF i >= VehicleCount(route.vehicle_type) THEN acc
    ELSE PushVehicles(route, i + 1,
             Append(acc, NewVehicle(route, i, Len(acc), stream)), stream)

RECURSIVE ForEachRoute(_, _, _, _)
ForEachRoute(rs, k, acc, stream) ==
    IF k > Len(rs) THEN acc
    ELSE ForEachRoute(rs, k + 1, PushVehicles(rs[k], 0, acc, stream), stream)

initialize_vehicles(rs, stream) == ForEachRoute(rs, 1, << >>, stream)

\* Iteration i of the inner loop panics: `route.stations.len() - 1` or
\* `route.stations.len() - 2` underflows in a build with overflow checks
\* (without them the difference wraps), or `route.stations[last_station]`
\* is out of bounds.
NewVehiclePanics(route, i, overflow_checks) ==
    LET len  == Len(route.stations)
        last == IF i % 2 = 0 THEN 0 ELSE AsUsize(len - 1)
    IN  \/ i % 2 = 1 /\ overflow_checks /\ len - 2 < 0
        \/ last < 0 \/ last >= len

\* initialize_vehicles as a call that either returns a fleet or panics
BuildOutcome(rs, stream, overflow_checks) ==
    IF \E k \in 1..Len(rs) :
           \E i \in 0..(VehicleCount(rs[k].vehicle_type) - 1) :
               NewVehiclePanics(rs[k], i, overflow_checks)
    THEN [panicked |-> TRUE, vehicles |-> << >>]
    ELSE [panicked |-> FALSE, vehicles |-> initialize_vehicles(rs, stream)]

----------------------------------------------------------------------------
(* Tick *)

\* Mutant: at a terminus the direction is reversed but next_station is not
\* recomputed from it.
CrossBoundary_StaleNext(v, len) ==
    LET last == v.next_station
        cand == last + v.direction
    IN  IF cand < 0 \/ cand >= len
        THEN [v EXCEPT !.position     = v.position - One,
                       !.last_station = last,
                       !.direction    = -v.direction]
        ELSE [v EXCEPT !.position     = v.position - One,
                       !.last_station = last,
                       !.next_station = AsUsize(cand)]

\* Mutant: the progress left after a boundary is discarded.
CrossBoundary_ResetProgress(v, len) ==
    LET last == v.next_station
        cand == last + v.direction
    IN  IF cand < 0 \/ cand >= len
        THEN [v EXCEPT !.position     = 0,
                       !.last_station = last,
                       !.direction    = -v.direction,
                       !.next_station = AsUsize(last - v.direction)]
        ELSE [v EXCEPT !.position     = 0,
                       !.last_station = last,
                       !.next_station = AsUsize(cand)]

\* Mutant: the vehicle turns back one station before the terminus.
CrossBoundary_EarlyTurn(v, len) ==
    LET last == v.next_station
        cand == last + v.direction
    IN  IF cand <= 0 \/ cand >= len - 1
        THEN [v EXCEPT !.position     = v.position - One,
                       !.last_station = last,
                       !.direction    = -v.direction,
                       !.next_station =
                           IF last - v.direction < 0 \/ last - v.direction >= len
                           THEN AsUsize(last + v.direction)
                           ELSE AsUsize(last - v.direction)]
        ELSE [v EXCEPT !.position     = v.position - One,
                       !.last_station = last,
                       !.next_station = AsUsize(cand)]

\* Mutant: a vehicle gains speed at every boundary.
CrossBoundary_Accelerate(v, len) ==
    LET last == v.next_station
        cand == last + v.direction
    IN  IF cand < 0 \/ cand >= len
        THEN [v EXCEPT !.position     = v.position - One,
                       !.speed        = v.speed + 1,
                       !.last_station = last,
                       !.direction    = -v.direction,
                       !.next_station = AsUsize(last - v.direction)]
        ELSE [v EXCEPT !.position     = v.position - One,
                       !.speed        = v.speed + 1,
                       !.last_station = last,
                       !.next_station = AsUsize(cand)]

\* one iteration of `while vehicle.position >= 1.0`
CrossBoundary(v, len) ==
    LET last == v.next_station
        cand == last + v.direction
    IN  IF cand < 0 \/ cand >= len
        THEN [v EXCEPT !.position     = v.position - One,
                       !.last_station = last,
                       !.direction    = -v.direction,
                       !.next_station = AsUsize(last - v.direction)]
        ELSE [v EXCEPT !.position     = v.position - One,
                       !.last_station = last,
                       !.next_station = AsUsize(cand)]

\* Mutant: the progress is never brought back below 1.0.
ResolveBoundaries_NoLoop(v, len) == v

\* Mutant: `if` in place of `while`: one boundary at most is resolved.
ResolveBoundaries_IfOnly(v, len) ==
    IF v.position >= One THEN CrossBoundary(v, len) ELSE v

RECURSIVE ResolveBoundaries(_, _)
ResolveBoundaries(v, len) ==
    IF v.position >= One THEN ResolveBoundaries(CrossBoundary(v, len), len) ELSE v

\* Mutant: the interpolation runs from the next station towards the last.
Interpolate_FromNext(v, route) ==
    LET last == Station(route, v.last_station)
        next == Station(route, v.next_station)
    IN  [v EXCEPT !.lng = next[1] * One + (last[1] - next[1]) * v.position,
                  !.lat = next[2] * One + (last[2] - next[2]) * v.position]

\* linear interpolation between the last and the next station
Interpolate(v, route) ==
    LET last == Station(route, v.last_station)
        next == Station(route, v.next_station)
    IN  [v EXCEPT !.lng = last[1] * One + (next[1] - last[1]) * v.position,
                  !.lat = last[2] * One + (next[2] - last[2]) * v.position]

\* the body of `for vehicle in &mut sim_state.vehicles`
UpdateVehicle(v, rs) ==
    LET route == rs[v.route_index + 1]
        moved == [v EXCEPT !.position = v.position + v.speed]
    IN  Interpolate(ResolveBoundaries(moved, Len(route.stations)), route)

update_vehicle_positions(vs, rs) == [n \in 1..Len(vs) |-> UpdateVehicle(vs[n], rs)]

\* the vehicle after `position += speed` followed by each successive iteration
\* of the while loop
RECURSIVE BoundaryTrace(_, _)
BoundaryTrace(v, len) ==
    IF v.position >= One THEN <<v>> \o BoundaryTrace(CrossBoundary(v, len), len)
    ELSE <<v>>

\* Mutant: a vehicle takes over the progress of the vehicle before it in the
\* fleet.
TickVehicle_FollowLeader(vs, n, rs) ==
    LET leader == vs[IF n = 1 THEN Len(vs) ELSE n - 1]
    IN  [vs EXCEPT ![n] = UpdateVehicle([vs[n] EXCEPT !.position = leader.position], rs)]

\* one iteration of `for vehicle in &mut sim_state.vehicles`, made on the
\* fleet as the iterations before it left it
TickVehicle(vs, n, rs) == [vs EXCEPT ![n] = UpdateVehicle(vs[n], rs)]

\* the loop made over the vehicles in the given order
RECURSIVE TickInOrder(_, _, _)
TickInOrder(vs, rs, order) ==
    IF order = << >> THEN vs
    ELSE TickInOrder(TickVehicle(vs, Head(order), rs), rs, Tail(order))

----------------------------------------------------------------------------
(* Host scheduler and the scheduling loop *)

\* window.request_animation_frame: an id that identifies no outstanding request
FreshId(out) == CHOOSE id \in 1..(Cardinality(out) + 1) :
                    id \notin out /\ \A j \in 1..(id - 1) : j \in out

\* window.cancel_animation_frame(id): a no-op on an id that is not outstanding
cancel_animation_frame(out, id) == out \ {id}

\* the states of the host scheduler: window() is Some and the request
\* succeeds, window() is None, or window.request_animation_frame returns Err
Schedulers == {"ok", "no_window", "error"}

\* Mutant: the id of the requested frame is not stored.
start_animation_loop_NoStore(out, handle, sched) ==
    IF sched = "ok"
    THEN [outstanding |-> out \cup {FreshId(out)}, animation_frame_id |-> None,
          requested |-> "ok"]
    ELSE [outstanding |-> out, animation_frame_id |-> handle, requested |-> "failed"]

\* Mutant: a failed request clears the stored handle.
start_animation_loop_ClearOnError(out, handle, sched) ==
    IF sched = "ok"
    THEN [outstanding |-> out \cup {FreshId(out)},
          animation_frame_id |-> Some(FreshId(out)), requested |-> "ok"]
    ELSE [outstanding |-> out, animation_frame_id |-> None, requested |-> "failed"]

\* start_animation_loop: request the first frame and store its id; without a
\* window, or when the request returns Err, the error is logged and nothing
\* else is done
start_animation_loop(out, handle, sched) ==
    IF sched = "ok"
    THEN LET id == FreshId(out)
         IN  [outstanding |-> out \cup {id}, animation_frame_id |-> Some(id),
              requested |-> "ok"]
    ELSE [outstanding |-> out, animation_frame_id |-> handle, requested |-> "failed"]

\* Mutant: the next frame is requested but its id is not recorded.
request_animation_frame_NoStore(out, handle, sched) ==
    IF sched = "ok"
    THEN [outstanding |-> out \cup {FreshId(out)}, animation_frame_id |-> handle,
          requested |-> "ok"]
    ELSE [outstanding |-> out, animation_frame_id |-> handle, requested |-> "failed"]

\* request_animation_frame: request the next frame and store its id; failures
\* are logged only
request_animation_frame(out, handle, sched) ==
    IF sched = "ok"
    THEN LET id == FreshId(out)
         IN  [outstanding |-> out \cup {id}, animation_frame_id |-> Some(id),
              requested |-> "ok"]
    ELSE [outstanding |-> out, animation_frame_id |-> handle, requested |-> "failed"]

----------------------------------------------------------------------------
(* Renderer *)

\* the states of the renderer: no window.mapInstance, a map instance without
\* the 'vehicles-source' source, a map instance with it
Maps == {"none", "no_source", "ready"}

\* without a window there is no window.mapInstance
HostState(sched, m) == sched = "no_window" => m = "none"

\* register_vehicle_layers: adds the source and its layers to a map instance
\* that lacks them; logs an error when there is no map instance
register_vehicle_layers(m) == IF m = "no_source" THEN "ready" ELSE m

\* the decimal text format!("{}", x) writes for a number
RECURSIVE Digits(_)
Digits(n) == IF n < 10 THEN <<n>> ELSE Append(Digits(n \div 10), n % 10)
FormatNumber(x) == [negative |-> x < 0, digits |-> Digits(IF x < 0 THEN -x ELSE x)]

\* the number the JavaScript engine reads back from that text
RECURSIVE DigitsValue(_)
DigitsValue(ds) ==
    IF ds = << >> THEN 0
    ELSE 10 * DigitsValue(SubSeq(ds, 1, Len(ds) - 1)) + ds[Len(ds)]
ParseNumber(text) ==
    IF text.negative THEN -DigitsValue(text.digits) ELSE DigitsValue(text.digits)

\* match vehicle.vehicle_type { Bus => "Bus", Train => "Train" }
VehicleTypeName(vehicle_type) == IF vehicle_type = "Bus" THEN "Bus" ELSE "Train"

\* Mutant: the feature carries the coordinates the wrong way round.
Feature_LatLng(v) ==
    [ id          |-> ParseNumber(FormatNumber(v.id)),
      vehicleType |-> VehicleTypeName(v.vehicle_type),
      coordinates |-> <<ParseNumber(FormatNumber(v.lat)),
                        ParseNumber(FormatNumber(v.lng))>> ]

\* the GeoJSON feature of one vehicle, as the renderer receives it
Feature(v) ==
    [ id          |-> ParseNumber(FormatNumber(v.id)),
      vehicleType |-> VehicleTypeName(v.vehicle_type),
      coordinates |-> <<ParseNumber(FormatNumber(v.lng)),
                        ParseNumber(FormatNumber(v.lat))>> ]

\* Mutant: setData is called without looking for the map and its source.
update_maplibre_vehicles_Unguarded(vs, m) ==
    [ features  |-> [n \in 1..Len(vs) |-> Feature(vs[n])],
      delivered |-> TRUE ]

\* update_maplibre_vehicles: one feature per vehicle, handed to setData when
\* window.mapInstance and its 'vehicles-source' exist, dropped otherwise
update_maplibre_vehicles(vs, m) ==
    [ features  |-> [n \in 1..Len(vs) |-> Feature(vs[n])],
      delivered |-> (m = "ready") ]

----------------------------------------------------------------------------
(* State machine *)

\* what preToggle holds when the last handler was not a toggle
Snapshot(paused, vs) == [is_paused |-> paused, vehicles |-> vs]

\* preBuild: whether the engine was paused, and whether its fleet had moved
Before(paused, moved) == [is_paused |-> paused, moved |-> moved]

\* SIMULATION_STATE before any handler has run
InitEngine ==
    /\ routes = << >>
    /\ vehicles = << >>
    /\ is_paused = FALSE
    /\ animation_frame_id = None
    /\ outstanding = {}
    /\ ticks = 0
    /\ lastOp = "none"
    /\ toggleRun = 0
    /\ preToggle = Snapshot(FALSE, << >>)
    /\ preReset = {}
    /\ preBuild = Before(FALSE, FALSE)
    /\ requested = "none"
    /\ pushed = None
    /\ fired = None

\* the page has a window and a map instance, as when the controller script
\* initialises the simulation
Init ==
    /\ InitEngine
    /\ tfl_data \in {None} \cup {Some(repo) : repo \in TflRepositories}
    /\ scheduler = "ok"
    /\ map = "no_source"
    /\ probe = None

\* Mutant: a rebuild keeps the paused flag as it was.
InitialPaused_Keep(paused) == paused

\* sim_state.is_paused = false
InitialPaused(paused) == FALSE

\* initialize_simulation, entered with the host's requests being `out`
InitializeFrom(out) ==
    \E stream \in RandomStreams :
        LET rs   == BuildRoutes(tfl_data)
            loop == start_animation_loop(out, animation_frame_id, scheduler)
        IN  /\ scheduler = "ok" => Cardinality(out) < MaxOutstanding
            /\ routes' = rs
            /\ vehicles' = initialize_vehicles(rs, stream)
            /\ is_paused' = InitialPaused(is_paused)
            /\ map' = register_vehicle_layers(map)
            /\ outstanding' = loop.outstanding
            /\ animation_frame_id' = loop.animation_frame_id
            /\ requested' = loop.requested
            /\ pushed' = None
            /\ fired' = None
            /\ ticks' = 0
            /\ toggleRun' = 0
            /\ preToggle' = Snapshot(is_paused', vehicles')
            /\ preBuild' = Before(is_paused, ticks > 0)
            /\ UNCHANGED scheduler

\* window.rust_initialize_simulation: initialize_simulation() on the store,
\* whatever state its caller keeps
rust_initialize_simulation ==
    /\ InitializeFrom(outstanding)
    /\ lastOp' = "initialize"
    /\ UNCHANGED <<tfl_data, preReset>>

initialize_simulation == rust_initialize_simulation /\ UNCHANGED probe

\* Mutant: toggle always pauses.
toggle_pause_AlwaysPause(paused) == TRUE

\* sim_state.is_paused = !sim_state.is_paused
toggle_pause(paused) == ~paused

\* window.rust_toggle_simulation: toggle_simulation() on the store
rust_toggle_simulation ==
    LET is_now_paused == toggle_pause(is_paused)
        loop == start_animation_loop(outstanding, animation_frame_id, scheduler)
    IN  /\ is_paused' = is_now_paused
        /\ IF ~is_now_paused
           THEN /\ scheduler = "ok" => Cardinality(outstanding) < MaxOutstanding
                /\ outstanding' = loop.outstanding
                /\ animation_frame_id' = loop.animation_frame_id
                /\ requested' = loop.requested
           ELSE /\ UNCHANGED <<outstanding, animation_frame_id>>
                /\ requested' = "none"
        /\ pushed' = None
        /\ fired' = None
        /\ lastOp' = "toggle"
        /\ toggleRun' = IF toggleRun = 0 THEN 1 ELSE 2
        /\ preToggle' = Snapshot(is_paused, vehicles)
        /\ preBuild' = Before(FALSE, FALSE)
        /\ UNCHANGED <<tfl_data, routes, vehicles, ticks, preReset,
                       scheduler, map>>

toggle_simulation == rust_toggle_simulation /\ UNCHANGED probe

\* the requests left after reset_simulation's cancel_animation_frame, which
\* is made when a handle is stored and window() is Some
AfterCancel(out, handle, sched) ==
    IF handle = None \/ sched = "no_window" THEN out
    ELSE cancel_animation_frame(out, CHOOSE id \in handle : TRUE)

\* window.rust_reset_simulation: reset_simulation() on the store
rust_reset_simulation ==
    LET out == AfterCancel(outstanding, animation_frame_id, scheduler)
    IN  /\ InitializeFrom(out)
        /\ lastOp' = "reset"
        /\ preReset' = out
        /\ UNCHANGED tfl_data

reset_simulation == rust_reset_simulation /\ UNCHANGED probe

\* Mutant: the loop ends after every callback.
ShouldContinue_Never(paused) == FALSE

\* Mutant: the loop goes on whatever the paused flag says.
ShouldContinue_Always(paused) == TRUE

\* let should_continue = !state.borrow().is_paused
ShouldContinue(paused) == ~paused

\* Mutant: the tick is made but the renderer is not updated.
RenderTick_NoPush(vs, m) == None

\* update_maplibre_vehicles(&sim_state), called after the tick
RenderTick(vs, m) == Some(update_maplibre_vehicles(vs, m))

\* Mutant: the renderer is given the fleet as it was before the tick.
RenderAfterTick_Stale(before, after, m) == RenderTick(before, m)

\* update_maplibre_vehicles(&sim_state) in the callback: sim_state is the
\* borrow update_vehicle_positions has just written through
RenderAfterTick(before, after, m) == RenderTick(after, m)

\* the closure the host calls for the outstanding request id
FrameBody(id) ==
    LET rest == outstanding \ {id}
        should_continue == ShouldContinue(is_paused)
        next == request_animation_frame(rest, animation_frame_id, scheduler)
    IN  /\ id \in outstanding
        /\ IF ~is_paused
           THEN /\ vehicles' = update_vehicle_positions(vehicles, routes)
                /\ pushed' = RenderAfterTick(vehicles, vehicles', map)
           ELSE /\ UNCHANGED vehicles
                /\ pushed' = None
        /\ IF should_continue
           THEN /\ outstanding' = next.outstanding
                /\ animation_frame_id' = next.animation_frame_id
                /\ requested' = next.requested
           ELSE /\ outstanding' = rest
                /\ requested' = "none"
                /\ UNCHANGED animation_frame_id
        /\ lastOp' = "frame"
        /\ fired' = Some(id)
        /\ toggleRun' = 0
        /\ preToggle' = Snapshot(is_paused, vehicles')
        /\ preReset' = preReset \ {id}
        /\ preBuild' = Before(FALSE, FALSE)
        /\ UNCHANGED <<tfl_data, routes, is_paused, scheduler, map, probe>>

\* a frame callback, the ticks of one fleet being counted up to the bound
FrameCallback(id) ==
    /\ ~is_paused => ticks < MaxTicks
    /\ FrameBody(id)
    /\ ticks' = IF is_paused THEN ticks ELSE ticks + 1

Next ==
    \/ initialize_simulation
    \/ toggle_simulation
    \/ reset_simulation
    \/ \E id \in outstanding : FrameCallback(id)

Spec == Init /\ [][Next]_vars

----------------------------------------------------------------------------
(* The engine in a host whose scheduler and renderer may be unavailable *)

\* the engine is exposed before the page has a window scheduler or a map
InitHost ==
    /\ InitEngine
    /\ tfl_data \in {Some(repo) : repo \in {x \in TflRepositories : Len(x) = 1}}
    /\ scheduler \in Schedulers
    /\ map \in Maps
    /\ HostState(scheduler, map)
    /\ probe = None

\* the page gains or loses its scheduler, its map instance or the map's source
HostChanges ==
    /\ \E sched \in Schedulers, m \in Maps :
           /\ HostState(sched, m)
           /\ <<sched, m>> # <<scheduler, map>>
           /\ scheduler' = sched
           /\ map' = m
    /\ UNCHANGED <<tfl_data, routes, vehicles, is_paused, animation_frame_id,
                   outstanding, ticks, lastOp, toggleRun, preToggle, preReset,
                   preBuild, requested, pushed, fired, probe>>

\* a frame callback in such a host
HostFrameCallback(id) ==
    /\ ~is_paused => ticks < MaxHostTicks
    /\ FrameBody(id)
    /\ ticks' = IF is_paused THEN ticks ELSE ticks + 1

\* the handlers of the engine
HostHandlers ==
    \/ initialize_simulation
    \/ toggle_simulation
    \/ reset_simulation
    \/ \E id \in outstanding : HostFrameCallback(id)

NextHost == HostHandlers \/ HostChanges

SpecHost == InitHost /\ [][NextHost]_vars

----------------------------------------------------------------------------
(* The engine driven through the SimulationController script that app()
   installs on the page *)

\* the variables of the engine and of its host
EngineVars ==
    <<tfl_data, routes, vehicles, is_paused, animation_frame_id, outstanding,
      ticks, lastOp, toggleRun, preToggle, preReset, preBuild, scheduler, map,
      requested, pushed, fired>>

\* const SimulationController = { initialized: false, running: false, ... };
\* exposed: the rust_* functions are set on window; method: the method of the
\* script called last; called: the rust_* function called last
SimulationController ==
    [ initialized |-> FALSE, running |-> FALSE, exposed |-> FALSE,
      method |-> "none", called |-> "none" ]

InitController ==
    /\ InitEngine
    /\ tfl_data \in {Some(repo) : repo \in {x \in TflRepositories : Len(x) = 1}}
    /\ scheduler = "ok"
    /\ map = "ready"
    /\ probe = Some(SimulationController)

\* expose_simulation_functions, run by an effect of app()
expose_simulation_functions ==
    /\ \E c \in probe : ~c.exposed /\ probe' = Some([c EXCEPT !.exposed = TRUE])
    /\ UNCHANGED EngineVars

\* Mutant: the script does not record that it has initialised the engine.
InitializeCall_Forgetful(c, method) ==
    IF c.exposed
    THEN /\ rust_initialize_simulation
         /\ probe' = Some([c EXCEPT !.running = TRUE,
                                    !.method = method, !.called = "initialize"])
    ELSE /\ probe' = Some([c EXCEPT !.method = method])
         /\ UNCHANGED EngineVars

\* the body of initialize() once `initialized` has been found false
InitializeCall(c, method) ==
    IF c.exposed
    THEN /\ rust_initialize_simulation
         /\ probe' = Some([c EXCEPT !.initialized = TRUE, !.running = TRUE,
                                    !.method = method, !.called = "initialize"])
    ELSE /\ probe' = Some([c EXCEPT !.method = method])
         /\ UNCHANGED EngineVars

\* SimulationController.initialize()
ControllerInitialize ==
    \E c \in probe :
        IF c.initialized
        THEN /\ probe' = Some([c EXCEPT !.method = "initialize"])
             /\ UNCHANGED EngineVars
        ELSE InitializeCall(c, "initialize")

\* Mutant: the script leaves its running flag as it was.
ToggleRunning_Keep(running) == running

\* this.running = !this.running
ToggleRunning(running) == ~running

\* SimulationController.toggle()
ControllerToggle ==
    \E c \in probe :
        IF ~c.initialized THEN InitializeCall(c, "toggle")
        ELSE IF c.exposed
        THEN /\ rust_toggle_simulation
             /\ probe' = Some([c EXCEPT !.running = ToggleRunning(c.running),
                                        !.method = "toggle", !.called = "toggle"])
        ELSE /\ probe' = Some([c EXCEPT !.method = "toggle"])
             /\ UNCHANGED EngineVars

\* SimulationController.reset()
ControllerReset ==
    \E c \in probe :
        IF c.exposed
        THEN /\ rust_reset_simulation
             /\ probe' = Some([c EXCEPT !.running = TRUE,
                                        !.method = "reset", !.called = "reset"])
        ELSE /\ probe' = Some([c EXCEPT !.method = "reset"])
             /\ UNCHANGED EngineVars

NextController ==
    \/ expose_simulation_functions
    \/ ControllerInitialize
    \/ ControllerToggle
    \/ ControllerReset
    \/ \E id \in outstanding : HostFrameCallback(id)

SpecController == InitController /\ [][NextController]_vars

----------------------------------------------------------------------------
(* The running loop left to itself: the engine after initialize_simulation,
   with the host firing every frame it is asked for *)

\* the draws of the fleets left to run: progress 0.5, speed 0.010
RunStreams == { <<One \div 2>> }

InitRun ==
    /\ tfl_data \in {Some(repo) : repo \in TflRepositories}
    /\ routes = BuildRoutes(tfl_data)
    /\ vehicles \in {initialize_vehicles(routes, stream) : stream \in RunStreams}
    /\ is_paused = FALSE
    /\ animation_frame_id = Some(FreshId({}))
    /\ outstanding = {FreshId({})}
    /\ ticks = 0
    /\ lastOp = "initialize"
    /\ toggleRun = 0
    /\ preToggle = Snapshot(FALSE, vehicles)
    /\ preReset = {}
    /\ preBuild = Before(FALSE, FALSE)
    /\ scheduler = "ok"
    /\ map = "ready"
    /\ requested = "ok"
    /\ pushed = None
    /\ fired = None
    /\ probe = None

\* a frame callback, the ticks not being counted
RunningCallback(id) == FrameBody(id) /\ UNCHANGED ticks

NextRun == \E id \in outstanding : RunningCallback(id)

\* the host fires every frame request that stays outstanding
SpecRun == InitRun /\ [][NextRun]_vars /\ WF_vars(NextRun)

----------------------------------------------------------------------------
(* The running loop paused once and then left to itself *)

\* the engine after initialize_simulation over a repository of one line
InitPause == InitRun /\ Len(routes) = 1

\* toggle_simulation called on the running engine
PauseOnce == ~is_paused /\ toggle_simulation

NextPause == NextRun \/ PauseOnce

\* the host fires every frame request that stays outstanding; nothing obliges
\* the user to pause
SpecPause == InitPause /\ [][NextPause]_vars /\ WF_vars(NextRun)

----------------------------------------------------------------------------
(* The fleet builder on its own: initialize_vehicles applied to route lists
   that include routes with fewer than 2 stations *)

\* a route of n stations
ProbeRoute(id, vehicle_type, n) ==
    Route(id, vehicle_type, [k \in 1..n |-> <<10 * k, 10 * (k % 2)>>])

\* the route lists given to the builder; Route.id is the index of the route
ProbeRouteLists ==
    UNION { { [k \in 1..n |-> ProbeRoute(k - 1, f[k][1], f[k][2])] :
                f \in [1..n -> {"Train", "Bus"} \X (0..MaxProbeStations)] } :
            n \in 1..MaxProbeRoutes }

Probe(rs, stream, overflow_checks) ==
    [routes |-> rs, stream |-> stream, overflow_checks |-> overflow_checks,
     outcome |-> None]

InitBuilder ==
    /\ InitEngine
    /\ tfl_data = None
    /\ scheduler = "ok"
    /\ map = "no_source"
    /\ probe \in { Some(Probe(rs, stream, overflow_checks)) :
                      rs \in ProbeRouteLists, stream \in RandomStreams,
                      overflow_checks \in BOOLEAN }

\* let vehicles = initialize_vehicles(&routes)
BuildFleet ==
    /\ \E p \in probe :
           /\ p.outcome = None
           /\ probe' = Some([p EXCEPT !.outcome =
                   Some(BuildOutcome(p.routes, p.stream, p.overflow_checks))])
    /\ UNCHANGED <<tfl_data, routes, vehicles, is_paused, animation_frame_id,
                   outstanding, ticks, lastOp, toggleRun, preToggle, preReset,
                   preBuild, scheduler, map, requested, pushed, fired>>

SpecBuilder == InitBuilder /\ [][BuildFleet]_vars

----------------------------------------------------------------------------
(* The tick on its own: update_vehicle_positions applied to every valid state
   of a vehicle, with speeds that the fleet builder draws and speeds of one
   segment and more per tick *)

\* progress values, in units of 1/One
TickPositions == {0, One \div 4, One - 1}

\* speeds, in units of 1/One: 0.001, 0.014, 0.75, 1.0, 2.5, 4.001
TickSpeeds == {1, SpeedBase + SpeedSpan - 1, 3 * (One \div 4), One,
               5 * (One \div 2), 4 * One + 1}

\* a vehicle of route 0 at `last`, heading in direction dir
TickVehicleState(route, id, last, dir, position, speed) ==
    [ id           |-> id,
      vehicle_type |-> route.vehicle_type,
      route_index  |-> route.id,
      position     |-> position,
      speed        |-> speed,
      direction    |-> dir,
      last_station |-> last,
      next_station |-> last + dir,
      lng          |-> ToFixed(Station(route, last)[1]),
      lat          |-> ToFixed(Station(route, last)[2]) ]

\* the vehicles that share the store with the vehicle under test
Companion(v, k) ==
    [v EXCEPT !.id = k, !.position = (v.position + 3 * k * (One \div 10)) % One,
              !.speed = v.speed + k]

TickProbe(route, v) ==
    [ route   |-> route,
      before  |-> v,
      fleet   |-> [k \in 1..MaxTickFleet |-> Companion(v, k - 1)],
      outcome |-> None ]

TickProbes ==
    UNION { { TickProbe(ProbeRoute(0, "Train", len),
                        TickVehicleState(ProbeRoute(0, "Train", len), 0,
                                         last, dir, position, speed)) :
                last \in {k \in 0..(len - 1) : k + dir >= 0 /\ k + dir < len},
                position \in TickPositions, speed \in TickSpeeds } :
            len \in 2..MaxTickStations, dir \in {1, -1} }

InitTick ==
    /\ InitEngine
    /\ tfl_data = None
    /\ scheduler = "ok"
    /\ map = "no_source"
    /\ probe \in {Some(p) : p \in TickProbes}

\* the orders in which n vehicles can be visited
Orders(n) == {order \in [1..n -> 1..n] : \A i, j \in 1..n : order[i] = order[j] => i = j}

\* update_vehicle_positions(&mut sim_state) on the vehicle, and on the fleet
ApplyTick ==
    /\ \E p \in probe :
           /\ p.outcome = None
           /\ probe' = Some([p EXCEPT !.outcome = Some(
                 [ after  |-> UpdateVehicle(p.before, <<p.route>>),
                   trace  |-> BoundaryTrace(
                                 [p.before EXCEPT !.position = @ + p.before.speed],
                                 Len(p.route.stations)),
                   fleet  |-> update_vehicle_positions(p.fleet, <<p.route>>),
                   orders |-> {TickInOrder(p.fleet, <<p.route>>, order) :
                                  order \in Orders(Len(p.fleet))} ])])
    /\ UNCHANGED <<tfl_data, routes, vehicles, is_paused, animation_frame_id,
                   outstanding, ticks, lastOp, toggleRun, preToggle, preReset,
                   preBuild, scheduler, map, requested, pushed, fired>>

SpecTick == InitTick /\ [][ApplyTick]_vars

----------------------------------------------------------------------------
(* The earlier controller, tfl::vehicles::SimulationController, and its
   vehicles, which shuttle between a start and an end position *)

\* start + (end - start) * progress, in the units of ToFixed
interpolate_position(start, end, progress) ==
    << ToFixed(start[1]) + (end[1] - start[1]) * progress,
       ToFixed(start[2]) + (end[2] - start[2]) * progress >>

\* a Vehicle with the given progress, speed and direction
EarlierVehicle(id, vehicle_type, start, end, progress, speed, direction) ==
    [ id               |-> id,
      vehicle_type     |-> vehicle_type,
      current_position |-> interpolate_position(start, end, progress),
      start_position   |-> start,
      end_position     |-> end,
      progress         |-> progress,
      speed            |-> speed,
      direction        |-> direction ]

\* if Math::random() > 0.5 { 1 } else { -1 }
RandomDirection(draw) == IF 2 * draw > One THEN 1 ELSE -1

\* Vehicle::new: progress, speed (0.001 + random * 0.009) and direction are
\* drawn in this order
Vehicle_new(id, vehicle_type, start, end, stream) ==
    EarlierVehicle(id, vehicle_type, start, end,
                   Draw(stream, 3 * id),
                   1 + (Draw(stream, 3 * id + 1) * 9) \div One,
                   RandomDirection(Draw(stream, 3 * id + 2)))

\* Mutant: the direction is turned at the ends but the progress is not
\* clamped.
Vehicle_update_NoClamp(v) ==
    LET advanced  == v.progress + v.speed * v.direction
        direction == IF advanced >= One THEN -1
                     ELSE IF advanced <= 0 THEN 1 ELSE v.direction
    IN  [v EXCEPT !.progress = advanced,
                  !.direction = direction,
                  !.current_position =
                      interpolate_position(v.start_position, v.end_position, advanced)]

\* Vehicle::update
Vehicle_update(v) ==
    LET advanced  == v.progress + v.speed * v.direction
        progress  == IF advanced >= One THEN One
                     ELSE IF advanced <= 0 THEN 0 ELSE advanced
        direction == IF advanced >= One THEN -1
                     ELSE IF advanced <= 0 THEN 1 ELSE v.direction
    IN  [v EXCEPT !.progress = progress,
                  !.direction = direction,
                  !.current_position =
                      interpolate_position(v.start_position, v.end_position, progress)]

\* the draws of Math::random() seen by the earlier controller
EarlierStreams == { <<One - 5>>, <<One \div 4>> }

\* the vehicles given to SimulationController::new
EarlierFleet(stream) ==
    << Vehicle_new(0, "Train", <<0, 0>>, <<10, 0>>, stream),
       Vehicle_new(1, "Bus", <<-5, 7>>, <<5, 7>>, stream) >>

\* SimulationController::new(vehicles)
SimulationController_new(vs) ==
    [vehicles |-> vs, is_running |-> FALSE, animation_frame_id |-> None]

\* the controller, the frame requests of the host with the clone each
\* closure owns, the ids issued, the resets made (epoch), the method called
\* last and the frame callback that has fired since
EarlierState(stream) ==
    [ controller |-> SimulationController_new(EarlierFleet(stream)),
      requests   |-> {},
      issued     |-> 0,
      epoch      |-> 0,
      method     |-> "new",
      frame      |-> None ]

InitEarlier ==
    /\ InitEngine
    /\ tfl_data = None
    /\ scheduler = "ok"
    /\ map = "ready"
    /\ probe \in {Some(EarlierState(stream)) : stream \in EarlierStreams}

\* a write made through `vehicle as *const Vehicle as *mut Vehicle`: the
\* vector is behind a shared reference, and the write may or may not be seen
UnsafeWrite(old, new) == {old, new}

\* self.request_animation_frame() made by `owner`: the closure gets
\* owner.clone(), taken before the id of the request is stored in owner
RequestFrame(e, owner, epoch) ==
    [e EXCEPT !.requests = @ \cup {[id |-> e.issued + 1, clone |-> owner,
                                     epoch |-> epoch]},
              !.issued = @ + 1]

\* start(): is_running is set, a frame is requested and its id stored
Started(e, method) ==
    LET ctl == [e.controller EXCEPT !.is_running = TRUE]
    IN  [RequestFrame(e, ctl, e.epoch) EXCEPT
            !.controller = [ctl EXCEPT !.animation_frame_id = Some(e.issued + 1)],
            !.method = method,
            !.frame = None]

\* pause(): is_running is cleared and the stored id, if any, is cancelled
Paused(e, method) ==
    [e EXCEPT !.controller.is_running = FALSE,
              !.controller.animation_frame_id = None,
              !.requests = {r \in @ : r.id \notin e.controller.animation_frame_id},
              !.method = method,
              !.frame = None]

\* the loop of reset(): progress and direction are drawn again
Rerandomize(vs, stream) ==
    [n \in 1..Len(vs) |->
        LET progress == Draw(stream, 2 * (n - 1))
        IN  [vs[n] EXCEPT
               !.progress = progress,
               !.current_position =
                   interpolate_position(vs[n].start_position,
                                        vs[n].end_position, progress),
               !.direction = RandomDirection(Draw(stream, 2 * (n - 1) + 1))]]

SimulationController_start ==
    /\ \E e \in probe :
           /\ e.issued < MaxEarlierIds
           /\ probe' = Some(Started(e, "start"))
    /\ UNCHANGED EngineVars

SimulationController_pause ==
    /\ \E e \in probe : probe' = Some(Paused(e, "pause"))
    /\ UNCHANGED EngineVars

SimulationController_reset ==
    /\ \E e \in probe, stream \in EarlierStreams :
           LET paused == Paused(e, "reset")
           IN  /\ e.issued < MaxEarlierIds
               /\ \E vs \in UnsafeWrite(paused.controller.vehicles,
                                        Rerandomize(paused.controller.vehicles, stream)) :
                      probe' = Some(Started([paused EXCEPT !.controller.vehicles = vs,
                                                           !.epoch = @ + 1],
                                            "reset"))
    /\ UNCHANGED EngineVars

\* the closure of request r fires
EarlierFrameCallback ==
    /\ \E e \in probe : \E r \in e.requests :
           LET rest == [e EXCEPT !.requests = @ \ {r}]
           IN  IF r.clone.is_running
               THEN /\ e.issued < MaxEarlierIds
                    /\ \E vs \in UnsafeWrite(r.clone.vehicles,
                                   [n \in 1..Len(r.clone.vehicles) |->
                                       Vehicle_update(r.clone.vehicles[n])]) :
                           probe' = Some([RequestFrame(rest,
                                             [r.clone EXCEPT !.vehicles = vs], r.epoch)
                                          EXCEPT !.frame = Some(
                                            [ epoch     |-> r.epoch,
                                              advanced  |-> TRUE,
                                              requested |-> TRUE,
                                              rendered  |-> [n \in 1..Len(vs) |->
                                                               vs[n].current_position] ])])
               ELSE probe' = Some([rest EXCEPT !.frame = Some(
                                     [ epoch     |-> r.epoch,
                                       advanced  |-> FALSE,
                                       requested |-> FALSE,
                                       rendered  |-> << >> ])])
    /\ UNCHANGED EngineVars

NextEarlier ==
    \/ SimulationController_start
    \/ SimulationController_pause
    \/ SimulationController_reset
    \/ EarlierFrameCallback

SpecEarlier == InitEarlier /\ [][NextEarlier]_vars

\* the vehicles Vehicle::update is applied to
ShuttleProgress == {0, 1, One \div 2, One - 1, One}
ShuttleSpeeds == {0, 1, 10, One \div 2, One, 5 * (One \div 2)}
ShuttleLegs == { << <<0, 0>>, <<10, 0>> >>, << <<-5, 7>>, <<5, -3>> >> }

InitVehicle ==
    /\ InitEngine
    /\ tfl_data = None
    /\ scheduler = "ok"
    /\ map = "no_source"
    /\ probe \in { Some([ vehicle |-> EarlierVehicle(0, "Train", leg[1], leg[2],
                                                     progress, speed, direction),
                          before  |-> None,
                          calls   |-> 0 ]) :
                      leg \in ShuttleLegs, progress \in ShuttleProgress,
                      speed \in ShuttleSpeeds, direction \in {1, -1} }

\* v.update()
UpdateCall ==
    /\ \E u \in probe :
           /\ u.calls < MaxVehicleUpdates
           /\ probe' = Some([ vehicle |-> Vehicle_update(u.vehicle),
                              before  |-> Some(u.vehicle),
                              calls   |-> u.calls + 1 ])
    /\ UNCHANGED EngineVars

SpecVehicle == InitVehicle /\ [][UpdateCall]_vars

----------------------------------------------------------------------------
(* The instrumentation of the tick and of the render bridge *)

\* POSITION_UPDATE_COUNTER % 300 == 0
PositionLogEvery == 300
\* MAPLIBRE_UPDATE_COUNTER % 600 == 0
MaplibreLogEvery == 600

\* what js_sys::eval of the setData script does: the source is given the
\* data, the map or the source is missing, the script throws outside its try
\* block (eval returns Err), or setData throws inside it
RenderOutcomes == {"set", "skipped", "eval_err", "set_data_throws"}

\* the lines update_vehicle_positions writes on the call that finds the
\* counter at `counter` after incrementing it
PositionLog(counter) ==
    IF counter % PositionLogEvery = 0 THEN {"debug: Updating positions"} ELSE {}

\* the lines update_maplibre_vehicles writes, the console of the page included
MaplibreLog(counter, outcome) ==
    LET should_log == counter % MaplibreLogEvery = 0
    IN  (IF should_log THEN {"debug: Updating MapLibre"} ELSE {})
        \cup (IF should_log /\ outcome = "eval_err"
              THEN {"error: Failed to update vehicle positions in MapLibre"} ELSE {})
        \cup (IF outcome = "set_data_throws"
              THEN {"console.error: Error updating vehicles source"} ELSE {})

InitLog ==
    /\ InitEngine
    /\ tfl_data = None
    /\ scheduler = "ok"
    /\ map = "ready"
    /\ probe = Some([ POSITION_UPDATE_COUNTER |-> 0,
                      MAPLIBRE_UPDATE_COUNTER |-> 0,
                      position_log |-> {},
                      maplibre_log |-> {} ])

\* update_vehicle_positions and update_maplibre_vehicles, called in turn by a
\* frame callback that finds the engine running
LoggedTick ==
    /\ \E l \in probe, outcome \in RenderOutcomes :
           /\ l.POSITION_UPDATE_COUNTER < MaxLogCalls
           /\ probe' = Some(
                 [ POSITION_UPDATE_COUNTER |-> l.POSITION_UPDATE_COUNTER + 1,
                   MAPLIBRE_UPDATE_COUNTER |-> l.MAPLIBRE_UPDATE_COUNTER + 1,
                   position_log |-> PositionLog(l.POSITION_UPDATE_COUNTER + 1),
                   maplibre_log |-> MaplibreLog(l.MAPLIBRE_UPDATE_COUNTER + 1,
                                                outcome) ])
    /\ UNCHANGED EngineVars

SpecLog == InitLog /\ [][LoggedTick]_vars

----------------------------------------------------------------------------
(* Properties *)

RouteOf(v) == routes[v.route_index + 1]
StationCount(v) == Len(RouteOf(v).stations)
Vehicles == {vehicles[n] : n \in 1..Len(vehicles)}

\* a vehicle that crossed a waypoint boundary in the tick just made
JustCrossed(v) == v.position < v.speed

\* C1: after every tick, and in every reachable state, each vehicle's segment
\* progress satisfies 0 <= position < 1.0.
C1_ProgressInRange == \A v \in Vehicles : 0 <= v.position /\ v.position < One

\* C1 witness: a tick has just carried a vehicle over a boundary and
\* renormalised its progress.
C1_Witness == lastOp = "frame" /\ ticks > 0 /\ \E v \in Vehicles : JustCrossed(v)

\* C2: last_station and next_station are valid indices into the route's
\* stations and next_station = last_station + direction, after fleet build and
\* after every tick.
C2_IndicesValid ==
    \A v \in Vehicles :
        /\ 0 <= v.last_station /\ v.last_station < StationCount(v)
        /\ 0 <= v.next_station /\ v.next_station < StationCount(v)
        /\ v.next_station = v.last_station + v.direction

\* C2 witness: a tick has just reversed a vehicle at the far terminus and
\* another at the near terminus.
C2_Witness ==
    /\ lastOp = "frame"
    /\ \E v \in Vehicles : /\ JustCrossed(v)
                           /\ v.last_station = StationCount(v) - 1
                           /\ v.direction = -1
    /\ \E v \in Vehicles : /\ JustCrossed(v)
                           /\ v.last_station = 0
                           /\ v.direction = 1

\* C3: reset cancels the outstanding frame request before it rebuilds the
\* fleet, so no frame callback requested before the reset fires afterwards.
C3_NoStaleCallback == [][\A id \in preReset : ~FrameCallback(id)]_vars

\* C4: two toggles in succession return is_paused to its original value and
\* leave every vehicle unchanged, and a frame callback that finds is_paused
\* set makes no tick.
C4_ToggleTwice ==
    [][ /\ (lastOp = "toggle" /\ lastOp' = "toggle")
            => (is_paused' = preToggle.is_paused /\ vehicles' = preToggle.vehicles)
        /\ (is_paused /\ lastOp' = "frame") => vehicles' = vehicles ]_vars

\* C4 witness: the second toggle in a row has run on a fleet that has moved.
C4_Witness == toggleRun = 2 /\ ticks > 0 /\ vehicles # << >>

\* C5: every outstanding frame request is the one the stored handle
\* identifies.
C5_HandleIdentifiesOutstanding == outstanding \subseteq animation_frame_id

\* C6: a second initialize right after a first leaves the engine as the first
\* did: same routes, same vehicle count, not paused, and as many outstanding
\* frame requests.
C6_InitializeIdempotent ==
    [][ (lastOp = "initialize" /\ lastOp' = "initialize")
          => /\ routes' = routes
             /\ Len(vehicles') = Len(vehicles)
             /\ is_paused' = FALSE
             /\ Cardinality(outstanding') = Cardinality(outstanding) ]_vars

\* C8: toggle flips is_paused; resuming requests one frame and stores its id;
\* pausing neither requests nor cancels a frame and leaves the handle alone.
C8_ToggleEffect ==
    [][ lastOp' = "toggle" =>
          /\ is_paused' = ~is_paused
          /\ IF is_paused'
             THEN /\ outstanding' = outstanding
                  /\ animation_frame_id' = animation_frame_id
             ELSE \E id \in outstanding' \ outstanding :
                      /\ outstanding' = outstanding \cup {id}
                      /\ animation_frame_id' = Some(id) ]_vars

\* C8 witness: a pause and then a resume with the request of the running loop
\* still in flight: the pause left it alone, the resume added one of its own.
C8_Witness ==
    /\ lastOp = "toggle" /\ toggleRun = 2 /\ ~is_paused
    /\ Cardinality(outstanding) = 2
    /\ animation_frame_id \subseteq outstanding
    /\ vehicles # << >>

\* the vehicles a fleet build makes for route k, in creation order
RECURSIVE FleetSizeBefore(_)
FleetSizeBefore(k) ==
    IF k <= 1 THEN 0
    ELSE FleetSizeBefore(k - 1)
         + (IF routes[k - 1].vehicle_type = "Train" THEN 10 ELSE 20)

ForwardStart(v) == v.last_station = 0 /\ v.next_station = 1 /\ v.direction = 1
BackwardStart(v) ==
    /\ v.last_station = StationCount(v) - 1
    /\ v.next_station = StationCount(v) - 2
    /\ v.direction = -1
FreshDraws(v) ==
    /\ 0 <= v.position /\ v.position < One
    /\ SpeedBase <= v.speed /\ v.speed < SpeedBase + SpeedSpan

\* C9: after reset, from whatever state, and after initialize: is_paused is
\* false, the fleet has the size of a fresh build on the same routes, and every
\* vehicle is in a starting configuration with progress and speed in the ranges
\* they are drawn from.
C9_ResetRebuilds ==
    lastOp \in {"reset", "initialize"} =>
        /\ is_paused = FALSE
        /\ routes = BuildRoutes(tfl_data)
        /\ Len(vehicles) = FleetSizeBefore(Len(routes) + 1)
        /\ \A v \in Vehicles : (ForwardStart(v) \/ BackwardStart(v)) /\ FreshDraws(v)

\* C9 witness: a reset made while the engine was paused and its fleet had moved.
C9_Witness ==
    /\ lastOp = "reset" /\ preBuild = Before(TRUE, TRUE)
    /\ vehicles # << >>

\* C10: a fleet build gives every route 10 vehicles if it is a train route and
\* 20 if it is a bus route; the i-th of them starts forward from station 0 when
\* i is even and backward from the last station when i is odd, with progress in
\* [0, 1), speed in [0.005, 0.015) and lng/lat those of its last_station.
C10_FleetLayout ==
    lastOp \in {"reset", "initialize"} =>
        \A k \in 1..Len(routes) :
            LET count == IF routes[k].vehicle_type = "Train" THEN 10 ELSE 20
                base  == FleetSizeBefore(k)
                mine  == {n \in 1..Len(vehicles) : vehicles[n].route_index = routes[k].id}
            IN  /\ mine = (base + 1)..(base + count)
                /\ Cardinality({n \in mine : ForwardStart(vehicles[n])}) * 2 = count
                /\ \A i \in 0..(count - 1) :
                       LET v == vehicles[base + i + 1]
                       IN  /\ IF i % 2 = 0 THEN ForwardStart(v) ELSE BackwardStart(v)
                           /\ FreshDraws(v)
                           /\ v.vehicle_type = routes[k].vehicle_type
                           /\ v.lng = ToFixed(Station(routes[k], v.last_station)[1])
                           /\ v.lat = ToFixed(Station(routes[k], v.last_station)[2])

\* C10 witness: a build over a train route and a bus route.
C10_Witness ==
    /\ lastOp = "initialize"
    /\ \E k \in 1..Len(routes) : routes[k].vehicle_type = "Train"
    /\ \E k \in 1..Len(routes) : routes[k].vehicle_type = "Bus"
    /\ Len(vehicles) >= 30

\* C11: a route with fewer than 2 stations gets no vehicles: the builder skips
\* it, builds the vehicles of the other routes, and does not fail (no panic, no
\* out-of-range index stored in a vehicle).
C11_ShortRoutesSkipped ==
    \A p \in probe : \A o \in p.outcome :
        /\ ~o.panicked
        /\ \A n \in 1..Len(o.vehicles) :
               LET v   == o.vehicles[n]
                   len == Len(p.routes[v.route_index + 1].stations)
               IN  /\ len >= 2
                   /\ 0 <= v.last_station /\ v.last_station < len
                   /\ 0 <= v.next_station /\ v.next_station < len
        /\ \A k \in 1..Len(p.routes) :
               Len(p.routes[k].stations) >= 2 =>
                   Cardinality({n \in 1..Len(o.vehicles) :
                                  o.vehicles[n].route_index = p.routes[k].id})
                       = VehicleCount(p.routes[k].vehicle_type)

\* C12: when the host scheduler is unavailable (no window, or the request
\* returns an error) the failure is only logged: the handler issues no request
\* and makes no retry, the stored handle and, for a resume, the vehicles, the
\* routes and the flipped is_paused are left as they are; a frame callback
\* still makes its tick and ends the loop.  A later toggle flips is_paused
\* as usual and, once the scheduler is back, a reset or a resume restarts the
\* loop.
C12_SchedulerFailureOnlyLogged ==
    [][     /\ (requested' = "failed" /\ ~HostChanges)
                 => /\ scheduler # "ok"
                    /\ outstanding' \subseteq outstanding
                    /\ animation_frame_id' = animation_frame_id
            /\ (scheduler # "ok" /\ lastOp' = "toggle" /\ toggle_simulation)
                 => /\ is_paused' = ~is_paused
                    /\ vehicles' = vehicles /\ routes' = routes
                    /\ outstanding' = outstanding
                    /\ requested' = IF is_paused THEN "failed" ELSE "none"
            /\ \A id \in outstanding :
                   (~is_paused /\ scheduler # "ok" /\ lastOp' = "frame"
                      /\ HostFrameCallback(id))
                     => /\ requested' = "failed"
                        /\ outstanding' = outstanding \ {id}
                        /\ vehicles' = update_vehicle_positions(vehicles, routes)
                        /\ routes' = routes /\ is_paused' = is_paused
            /\ (requested = "failed" /\ scheduler = "ok" /\ lastOp' = "reset"
                   /\ reset_simulation)
                 => /\ requested' = "ok" /\ ~is_paused'
                    /\ animation_frame_id' # None
                    /\ animation_frame_id' \subseteq outstanding'
            /\ (requested = "failed" /\ scheduler = "ok" /\ is_paused
                   /\ lastOp' = "toggle" /\ toggle_simulation)
                 => /\ requested' = "ok" /\ ~is_paused'
                    /\ animation_frame_id' \subseteq outstanding' ]_vars

\* C12 witness: the request of a running loop has failed in a frame callback
\* after its tick, leaving an engine that is not paused with no request
\* outstanding.
C12_Witness ==
    /\ requested = "failed" /\ lastOp = "frame"
    /\ ~is_paused /\ ticks > 0 /\ outstanding = {}

\* the snapshot the last handler built was not handed to the renderer
Undelivered == pushed # None /\ \A snapshot \in pushed : ~snapshot.delivered

C14_SnapshotMirrorsFleet ==
    \A snapshot \in pushed :
        /\ lastOp = "frame" /\ ~is_paused
        /\ Len(snapshot.features) = Len(vehicles)
        /\ \A n \in 1..Len(vehicles) :
               /\ snapshot.features[n].id = vehicles[n].id
               /\ snapshot.features[n].vehicleType \in {"Bus", "Train"}
               /\ snapshot.features[n].vehicleType = vehicles[n].vehicle_type
               /\ snapshot.features[n].coordinates =
                      <<vehicles[n].lng, vehicles[n].lat>>

\* C14 witness: a snapshot of a moved fleet of buses and trains has been
\* delivered to the renderer.
C14_Witness ==
    /\ ticks > 0
    /\ \E snapshot \in pushed :
           /\ snapshot.delivered
           /\ \E n \in 1..Len(snapshot.features) :
                  snapshot.features[n].vehicleType = "Bus"
           /\ \E n \in 1..Len(snapshot.features) :
                  snapshot.features[n].vehicleType = "Train"
           /\ \E n \in 1..Len(snapshot.features) :
                  snapshot.features[n].coordinates[1] < 0

\* C15: after every fleet build the vehicle ids are unique and sequential,
\* 0..N-1 in creation order, and no tick changes an id.
C15_IdsSequential == \A n \in 1..Len(vehicles) : vehicles[n].id = n - 1

\* C15 witness: a fleet built over several routes has been ticked.
C15_Witness ==
    /\ lastOp = "frame" /\ ticks > 0
    /\ Len(routes) >= 2 /\ Len(vehicles) >= TrainCount + BusCount

\* C16: after every tick each vehicle's position is the linear interpolation
\* last + (next - last) * progress of its last and next waypoints with the
\* progress the tick left; last = [0, 0], next = [10, 0], progress = 0.25
\* give [2.5, 0].
C16_PositionInterpolated ==
    /\ ticks > 0 =>
          \A v \in Vehicles :
              LET last == Station(RouteOf(v), v.last_station)
                  next == Station(RouteOf(v), v.next_station)
              IN  /\ v.lng = ToFixed(last[1]) + (next[1] - last[1]) * v.position
                  /\ v.lat = ToFixed(last[2]) + (next[2] - last[2]) * v.position
    /\ LET route == Route(0, "Train", << <<0, 0>>, <<10, 0>> >>)
           v     == [last_station |-> 0, next_station |-> 1,
                     position |-> One \div 4, lng |-> 0, lat |-> 0]
           moved == Interpolate(v, route)
       IN  moved.lng * 2 = 5 * One /\ moved.lat = 0

\* C16 witness: a tick has carried a vehicle over a boundary and left it
\* strictly between its last and next waypoints.
C16_Witness ==
    /\ lastOp = "frame" /\ ticks > 0
    /\ \E v \in Vehicles :
           /\ JustCrossed(v) /\ v.position > 0
           /\ v.lng # ToFixed(Station(RouteOf(v), v.last_station)[1])

\* positions of the fleets of the running loop
FleetIndices == 1..(TrainCount + BusCount)

\* vehicle n has just arrived at waypoint k of its route
ArrivedAt(n, k) ==
    n <= Len(vehicles) => (vehicles[n].last_station = k /\ JustCrossed(vehicles[n]))

\* C17: while the engine is not paused and the host keeps firing the frame
\* callbacks, every vehicle keeps moving for ever: it arrives at the first and
\* at the last waypoint of its route infinitely often, turning back each time,
\* and the engine is never paused or left without a frame request.
C17_VehiclesKeepMoving ==
    /\ \A n \in FleetIndices :
           /\ []<>(ArrivedAt(n, 0)
                     /\ (n <= Len(vehicles) => vehicles[n].direction = 1))
           /\ []<>(n <= Len(vehicles) =>
                       /\ vehicles[n].last_station = StationCount(vehicles[n]) - 1
                       /\ JustCrossed(vehicles[n])
                       /\ vehicles[n].direction = -1)
    /\ []<>(~is_paused /\ outstanding # {})

\* C17 witness: a vehicle that started backward from the last waypoint of a
\* three-waypoint route has come back to it.
C17_Witness ==
    /\ lastOp = "frame"
    /\ \E n \in 1..Len(vehicles) :
           /\ n % 2 = 0
           /\ StationCount(vehicles[n]) = 3
           /\ vehicles[n].last_station = 2 /\ JustCrossed(vehicles[n])
           /\ vehicles[n].direction = -1

\* C18: in every reachable state at most one frame request of the engine is
\* outstanding.
C18_SingleOutstandingRequest == Cardinality(outstanding) <= 1

\* C19: a frame callback that fires while is_paused is true changes no
\* vehicle, builds no snapshot and requests no further frame; and while
\* is_paused stays true no vehicle changes and no request is issued.
C19_PausedCallbackInert ==
    [][ /\ \A id \in outstanding :
               (is_paused /\ lastOp' = "frame" /\ FrameCallback(id))
                 => /\ vehicles' = vehicles
                    /\ pushed' = None
                    /\ requested' = "none"
                    /\ outstanding' = outstanding \ {id}
                    /\ animation_frame_id' = animation_frame_id
        /\ (is_paused /\ is_paused')
             => /\ vehicles' = vehicles
                /\ outstanding' \subseteq outstanding ]_vars

\* C19 witness: the callback in flight at a pause has fired on a moved fleet
\* and ended the loop.
C19_Witness ==
    /\ lastOp = "frame" /\ is_paused /\ ticks > 0
    /\ outstanding = {} /\ pushed = None /\ animation_frame_id # None

\* C20: a frame callback that fires while is_paused is false advances every
\* vehicle exactly once, builds exactly one snapshot, of the advanced fleet,
\* and then requests exactly one next frame and records its id as the stored
\* handle.
C20_RunningCallbackStep ==
    [][ (~is_paused /\ lastOp' = "frame")
          => /\ vehicles' = update_vehicle_positions(vehicles, routes)
             /\ \A n \in 1..Len(vehicles) :
                    (vehicles'[n].position - vehicles[n].position
                        - vehicles[n].speed) % One = 0
             /\ pushed' = Some(update_maplibre_vehicles(vehicles', map))
             /\ is_paused' = is_paused
             /\ fired' # None /\ fired' \subseteq outstanding
             /\ \E new \in outstanding' \ (outstanding \ fired') :
                    /\ outstanding' = (outstanding \ fired') \cup {new}
                    /\ animation_frame_id' = Some(new) ]_vars

\* C20 witness: the single request of a running loop has fired, ticked the
\* fleet over a boundary, delivered its snapshot and been replaced by the next
\* request.
C20_Witness ==
    /\ lastOp = "frame" /\ ~is_paused /\ ticks > 0
    /\ Cardinality(outstanding) = 1 /\ animation_frame_id = outstanding
    /\ \E snapshot \in pushed : snapshot.delivered
    /\ \E v \in Vehicles : JustCrossed(v) /\ v.direction = -1

\* C21: after toggle_simulation has set is_paused, with no further initialize,
\* toggle or reset and the host firing every outstanding callback, eventually
\* no frame request is outstanding and none is issued again: the loop stops by
\* itself, the toggle having cancelled nothing.
C21_PausedLoopDrains ==
    /\ (is_paused /\ lastOp = "toggle" /\ outstanding # {})
          ~> (is_paused /\ outstanding = {} /\ lastOp = "frame")
    /\ (is_paused /\ outstanding = {}) ~> [](outstanding = {})

\* C21 witness: the request in flight at the pause has fired and left no
\* request behind.
C21_Witness ==
    /\ is_paused /\ lastOp = "frame" /\ fired # None
    /\ outstanding = {} /\ animation_frame_id = fired
    /\ vehicles # << >>

\* C25: after an initialize, in a host whose scheduler grants every request,
\* at least one frame request is outstanding whenever is_paused is false,
\* under every interleaving of toggle, reset and frame callbacks.
C25_RunningHasRequest ==
    (lastOp # "none" /\ ~is_paused) => (outstanding # {} /\ animation_frame_id # None)

\* C25 witness: the engine was paused, its loop ended, and a toggle has set
\* it running again with one request.
C25_Witness ==
    /\ lastOp = "toggle" /\ ~is_paused /\ preToggle.is_paused
    /\ ticks > 0 /\ requested = "ok"
    /\ Cardinality(outstanding) = 1 /\ animation_frame_id = outstanding

\* C26: the snapshot a frame callback pushes holds, for every vehicle, the
\* position of the completed update (progress advanced, boundaries resolved,
\* position interpolated) made by that same callback.
C26_SnapshotAfterTick ==
    [][ (lastOp' = "frame" /\ ~is_paused)
          => /\ pushed' # None
             /\ \A snapshot \in pushed' :
                    /\ Len(snapshot.features) = Len(vehicles)
                    /\ \A n \in 1..Len(vehicles) :
                           LET moved == UpdateVehicle(vehicles[n], routes)
                           IN  /\ snapshot.features[n].coordinates =
                                      <<moved.lng, moved.lat>>
                               /\ vehicles'[n] = moved ]_vars

\* C26 witness: the snapshot pushed shows a vehicle past the waypoint it has
\* just crossed.
C26_Witness ==
    /\ lastOp = "frame" /\ ticks > 1
    /\ \E snapshot \in pushed :
           \E n \in 1..Len(vehicles) :
               /\ JustCrossed(vehicles[n]) /\ vehicles[n].position > 0
               /\ snapshot.features[n].coordinates =
                      <<vehicles[n].lng, vehicles[n].lat>>
               /\ snapshot.features[n].coordinates[1] #
                      ToFixed(Station(RouteOf(vehicles[n]),
                                      vehicles[n].last_station)[1])

\* C27: a tick leaves the routes, is_paused, the number of vehicles and each
\* vehicle's id, class, route reference and speed as they were, and the
\* stored handle changes in a frame callback only by the request made after
\* the tick; toggle_simulation changes no route and no vehicle.
C27_TickFrame ==
    [][ /\ lastOp' = "frame"
             => /\ routes' = routes
                /\ is_paused' = is_paused
                /\ Len(vehicles') = Len(vehicles)
                /\ \A n \in 1..Len(vehicles) :
                       /\ vehicles'[n].id = vehicles[n].id
                       /\ vehicles'[n].vehicle_type = vehicles[n].vehicle_type
                       /\ vehicles'[n].route_index = vehicles[n].route_index
                       /\ vehicles'[n].speed = vehicles[n].speed
                /\ animation_frame_id' # animation_frame_id
                      => (~is_paused /\ requested' = "ok")
        /\ lastOp' = "toggle"
             => (routes' = routes /\ vehicles' = vehicles) ]_vars

\* C27 witness: a tick has turned a vehicle back at the last waypoint of its
\* route and the vehicle still has a speed the fleet builder draws.
C27_Witness ==
    /\ lastOp = "frame" /\ ~is_paused /\ ticks > 2
    /\ \E v \in Vehicles :
           /\ JustCrossed(v) /\ v.direction = -1
           /\ v.last_station = StationCount(v) - 1
           /\ v.speed >= SpeedBase /\ v.speed < SpeedBase + SpeedSpan

\* C29: each vehicle's route_index is an index of the store's routes, the
\* route at that index has that index as its id, and the vehicle's class is
\* the class of that route, in every reachable state.
C29_RouteReference ==
    \A v \in Vehicles :
        /\ v.route_index \in 0..(Len(routes) - 1)
        /\ routes[v.route_index + 1].id = v.route_index
        /\ v.vehicle_type = routes[v.route_index + 1].vehicle_type

\* C29 witness: a fleet of trains and buses over three routes has been
\* ticked and then rebuilt by a reset.
C29_Witness ==
    /\ lastOp = "reset" /\ preBuild.moved
    /\ Len(routes) = 3
    /\ \E v \in Vehicles : v.route_index = 2 /\ v.vehicle_type = "Bus"
    /\ \E v \in Vehicles : v.route_index = 1 /\ v.vehicle_type = "Train"

----------------------------------------------------------------------------
(* The tick on its own *)

\* the iterations of the boundary loop made by the tick of outcome o
Iterations(o) == 1..(Len(o.trace) - 1)

\* the iterations of the tick of outcome o that negated the direction
Reversals(o) == {i \in Iterations(o) : o.trace[i + 1].direction # o.trace[i].direction}

\* the position of v on the reflecting path 0 .. len-1 .. 0, in units of 1/One
PathScalar(v, len) ==
    IF v.direction = 1
    THEN v.last_station * One + v.position
    ELSE (2 * (len - 1) - v.last_station) * One + v.position

\* C22: when an iteration of a tick takes a vehicle into a terminus
\* (last_station becomes len-1 while heading +1, or 0 while heading -1), that
\* same iteration negates direction and sets next_station to len-2
\* (respectively 1), and the tick ends with what its last iteration left.
C22_BoundaryReflection ==
    \A p \in probe : \A o \in p.outcome :
        LET len  == Len(p.route.stations)
            last == o.trace[Len(o.trace)]
        IN  /\ \A i \in Iterations(o) :
                   LET a == o.trace[i]
                       b == o.trace[i + 1]
                   IN  /\ (b.last_station = len - 1 /\ a.direction = 1)
                             => (b.direction = -1 /\ b.next_station = len - 2)
                       /\ (b.last_station = 0 /\ a.direction = -1)
                             => (b.direction = 1 /\ b.next_station = 1)
            /\ o.after.direction = last.direction
            /\ o.after.last_station = last.last_station
            /\ o.after.next_station = last.next_station

C22_Witness ==
    \E p \in probe : \E o \in p.outcome :
        /\ Len(p.route.stations) = 3
        /\ p.before.speed < One /\ p.before.direction = 1
        /\ Len(o.trace) = 2
        /\ o.after.last_station = 2 /\ o.after.direction = -1
        /\ o.after.next_station = 1

\* C23: a tick of a vehicle whose speed is one segment or more resolves
\* every boundary crossed, floor(progress + speed) of them, and ends with
\* progress in [0,1), valid indices and next_station = last_station + direction.
C23_MultiBoundary ==
    \A p \in probe : \A o \in p.outcome :
        LET len == Len(p.route.stations)
            sum == p.before.position + p.before.speed
        IN  p.before.speed >= One =>
              /\ Len(o.trace) - 1 = sum \div One
              /\ o.after.position = sum % One
              /\ o.after.position >= 0 /\ o.after.position < One
              /\ o.after.last_station \in 0..(len - 1)
              /\ o.after.next_station \in 0..(len - 1)
              /\ o.after.next_station = o.after.last_station + o.after.direction

C23_Witness ==
    \E p \in probe : \E o \in p.outcome :
        /\ Len(p.route.stations) = 3
        /\ p.before.speed = 5 * (One \div 2)
        /\ Cardinality(Iterations(o)) = 3
        /\ Cardinality(Reversals(o)) = 2
        /\ o.after.position = (One \div 2) - 1

\* C24: with u the position of the vehicle on the reflecting path, a tick
\* yields u' = (u + speed) mod 2(len-1), in arithmetic of resolution 1/One.
C24_ReflectingPath ==
    \A p \in probe : \A o \in p.outcome :
        LET len == Len(p.route.stations)
        IN  PathScalar(o.after, len) =
               (PathScalar(p.before, len) + p.before.speed) % (2 * (len - 1) * One)

C24_Witness ==
    \E p \in probe : \E o \in p.outcome :
        LET len == Len(p.route.stations)
        IN  /\ len = 4
            /\ p.before.direction = -1 /\ o.after.direction = 1
            /\ PathScalar(p.before, len) + p.before.speed >= 2 * (len - 1) * One
            /\ PathScalar(o.after, len) < PathScalar(p.before, len)

\* C28: the vehicles of a fleet are updated independently: each one ends
\* where its own state and its route take it, in whichever order the
\* vehicles are visited.
C28_OrderIndependent ==
    \A p \in probe : \A o \in p.outcome :
        /\ o.orders = {o.fleet}
        /\ \A n \in 1..Len(p.fleet) :
               o.fleet[n] = UpdateVehicle(p.fleet[n], <<p.route>>)

C28_Witness ==
    \E p \in probe : \E o \in p.outcome :
        /\ Len(p.fleet) >= 3
        /\ o.fleet # p.fleet
        /\ o.fleet[1].last_station # o.fleet[2].last_station
        /\ o.fleet[2].position # o.fleet[3].position
        /\ Cardinality(Orders(Len(p.fleet))) >= 6

\* C30: every iteration of the boundary loop moves last_station to an
\* adjacent index, direction is +1 or -1 and changes sign only in an
\* iteration that has just made last_station a terminus, and a vehicle slower
\* than one segment per tick makes at most one iteration.
C30_AdjacentSteps ==
    \A p \in probe : \A o \in p.outcome :
        LET len == Len(p.route.stations)
        IN  /\ \A i \in Iterations(o) :
                   LET a == o.trace[i]
                       b == o.trace[i + 1]
                   IN  /\ b.last_station - a.last_station \in {1, -1}
                       /\ a.direction \in {1, -1} /\ b.direction \in {1, -1}
                       /\ b.direction # a.direction
                             => b.last_station \in {0, len - 1}
            /\ p.before.speed < One => Cardinality(Iterations(o)) <= 1

C30_Witness ==
    \E p \in probe : \E o \in p.outcome :
        /\ Len(p.route.stations) = 4
        /\ p.before.speed < One
        /\ Cardinality(Iterations(o)) = 1 /\ Reversals(o) = {}
        /\ p.before.last_station = 2 /\ o.after.last_station = 1

----------------------------------------------------------------------------
(* The SimulationController script *)

\* C31: after every call made through the script with the rust_* functions
\* exposed, the script's running flag is the negation of the engine's
\* is_paused.
C31_RunningMirrorsPaused ==
    \A c \in probe : c.called # "none" => (c.running = ~is_paused)

\* C31 witness: the script has paused a ticking engine and set it running
\* again.
C31_Witness ==
    \E c \in probe :
        /\ c.called = "toggle" /\ c.running /\ ~is_paused
        /\ toggleRun = 2 /\ ticks > 0

\* C32: once initialize() or reset() has started the engine, the next
\* toggle() pauses it, rebuilds no route and no vehicle and starts no further
\* scheduling loop.
C32_ToggleAfterStartPauses ==
    [][ \A c \in probe : \A d \in probe' :
            (d.method = "toggle" /\ d # c /\ c.called \in {"initialize", "reset"})
              => /\ d.called = "toggle"
                 /\ is_paused'
                 /\ routes' = routes /\ vehicles' = vehicles
                 /\ outstanding' = outstanding ]_vars

----------------------------------------------------------------------------
(* The earlier controller *)

C35_UpdateClamps ==
    \A u \in probe : \A b \in u.before :
        LET advanced == b.progress + b.speed * b.direction
            v == u.vehicle
        IN  /\ 0 <= v.progress /\ v.progress <= One
            /\ v.direction \in {1, -1}
            /\ advanced >= One => (v.progress = One /\ v.direction = -1)
            /\ advanced <= 0 => (v.progress = 0 /\ v.direction = 1)
            /\ (0 < advanced /\ advanced < One)
                  => (v.progress = advanced /\ v.direction = b.direction)
            /\ v.current_position[1] = ToFixed(v.start_position[1])
                  + (v.end_position[1] - v.start_position[1]) * v.progress
            /\ v.current_position[2] = ToFixed(v.start_position[2])
                  + (v.end_position[2] - v.start_position[2]) * v.progress
            /\ v.speed = b.speed /\ v.start_position = b.start_position
            /\ v.end_position = b.end_position

\* C35 witness: a vehicle faster than its whole leg has been clamped at the
\* end and then, on its next update, at the start.
C35_Witness ==
    \E u \in probe : \E b \in u.before :
        /\ u.calls = 2 /\ b.speed > One
        /\ b.progress = One /\ b.direction = -1
        /\ u.vehicle.progress = 0 /\ u.vehicle.direction = 1
        /\ u.vehicle.current_position[2] = ToFixed(u.vehicle.start_position[2])

----------------------------------------------------------------------------
(* Instrumentation *)

\* C36: update_vehicle_positions writes a log line only on the calls whose
\* counter is a multiple of 300, and update_maplibre_vehicles, render errors
\* included, only on the calls whose counter is a multiple of 600.
C36_LoggingSampled ==
    \A l \in probe :
        /\ l.POSITION_UPDATE_COUNTER % PositionLogEvery # 0 => l.position_log = {}
        /\ l.MAPLIBRE_UPDATE_COUNTER % MaplibreLogEvery # 0 => l.maplibre_log = {}
====
